---- MODULE Spec2Model ----
(***************************************************************************)
(* Model of two devices:                                                   *)
(*   - the Apple M0110A keyboard controller glue                           *)
(*       src/src/devices/bus/mackbd/pluskbd.cpp  (m0110a_device)           *)
(*   - the Y8950 FM + ADPCM-B sound chip glue                              *)
(*       src/src/devices/sound/y8950.cpp         (y8950_device)            *)
(* The two devices share no state; each has its own specification          *)
(* (KbdSpec, SndSpec) over its own variables.                              *)
(***************************************************************************)
EXTENDS Integers, Sequences, FiniteSets

VARIABLES
    \* ---- m0110a_device ----
    m_row_drive,        \* u16: bit pattern driving rows (active low)
    m_host_clock_out,   \* u8: clock line drive to host
    m_host_data_out,    \* u8: data line drive to host
    m_host_data_in,     \* u8: data line drive from host
    rows,               \* the ten ROWn input ports (owned by the input system)
    sync_queue,         \* params of the synchronize() callbacks not yet run
    submitted,          \* history: every level handed to data_w, in order
    applied,            \* history: number of update_host_data callbacks run
    kbd_last,           \* the last keyboard operation: what it returned and emitted
    line_level,         \* history: level of the last event sent on each line, -1 if none
    \* ---- y8950_device ----
    m_address,          \* u8: address latch
    m_io_ddr,           \* u8: I/O direction latch
    m_irq_mask,         \* u8: IRQ enable mask
    opl_status,         \* FM engine: its status register
    opl_irq_mask,       \* FM engine: its own IRQ mask
    adpcm_status,       \* ADPCM-B engine: its status flags
    pending,            \* samples the stream still has to produce to reach "now"
    snd_last            \* the last sound chip operation: result, calls, samples

kbd_vars == <<m_row_drive, m_host_clock_out, m_host_data_out, m_host_data_in,
              rows, sync_queue, submitted, applied, kbd_last, line_level>>
snd_vars == <<m_address, m_io_ddr, m_irq_mask, opl_status, opl_irq_mask,
              adpcm_status, pending, snd_last>>
vars == <<kbd_vars, snd_vars>>

(***************************************************************************)
(* Bit arithmetic on non-negative integers (BIT, &, |, ~ on u8).           *)
(***************************************************************************)
RECURSIVE BitAnd(_, _)
BitAnd(a, b) ==
    IF a = 0 \/ b = 0 THEN 0
    ELSE (a % 2) * (b % 2) + 2 * BitAnd(a \div 2, b \div 2)

RECURSIVE BitOr(_, _)
BitOr(a, b) ==
    IF a = 0 THEN b
    ELSE IF b = 0 THEN a
    ELSE (IF a % 2 = 1 \/ b % 2 = 1 THEN 1 ELSE 0) + 2 * BitOr(a \div 2, b \div 2)

BIT(x, n) == (x \div (2 ^ n)) % 2

BitNot8(x) == (2 ^ 8 - 1) - (x % (2 ^ 8))

(***************************************************************************)
(*                      M0110A KEYBOARD CONTROLLER                         *)
(***************************************************************************)

\* required_ioport_array<10> m_rows
NumRows == 10

\* ---- bounds and input sets of the keyboard model ----
\* rows of the matrix on which the input system may report keys; the other
\* rows stay idle (all ones, active low)
KeyRows == {0, 9}
\* snapshots a key row may show: idle, or some keys held
RowValues == {255, 254, 125}
\* bytes the firmware writes to P1
P1Values == {255, 254}
\* bytes the firmware writes to P2: row bits 0-1 with clock (bit 6) and data (bit 7)
P2Values == {r + c : r \in 0..3, c \in {0, 64, 128, 192}}
\* levels the host drives on the data line
LineStates == {0, 1}
\* number of host data edges followed in one run
MaxEdges == 2

KbdOp(op, arg, result, events) ==
    [op |-> op, arg |-> arg, result |-> result, events |-> events]

\* ---- device_start ----
\* mutant: the members are left zero-initialised
KbdInit_zeroed ==
    /\ m_row_drive = 0
    /\ m_host_clock_out = 0
    /\ m_host_data_out = 0
    /\ m_host_data_in = 0
    /\ rows = [i \in 0..(NumRows - 1) |-> 255]
    /\ sync_queue = <<>>
    /\ submitted = <<>>
    /\ applied = 0
    /\ kbd_last = KbdOp("start", 0, 0, <<>>)
    /\ line_level = [clock |-> -1, data |-> -1]

KbdInit ==
    /\ m_row_drive = 1023
    /\ m_host_clock_out = 1
    /\ m_host_data_out = 1
    /\ m_host_data_in = 1
    /\ rows = [i \in 0..(NumRows - 1) |-> 255]
    /\ sync_queue = <<>>
    /\ submitted = <<>>
    /\ applied = 0
    /\ kbd_last = KbdOp("start", 0, 0, <<>>)
    /\ line_level = [clock |-> -1, data |-> -1]

\* ---- host_data_r ----
\* mutant: the level is returned as it is, not inverted
host_data_r_value_plain(host_data_in) == host_data_in

host_data_r_value(host_data_in) ==
    IF host_data_in % 2 = 1 THEN host_data_in - 1 ELSE host_data_in + 1

host_data_r ==
    /\ kbd_last' = KbdOp("host_data_r", 0, host_data_r_value(m_host_data_in), <<>>)
    /\ UNCHANGED <<snd_vars, line_level, m_row_drive, m_host_clock_out, m_host_data_out, m_host_data_in,
                   rows, sync_queue, submitted, applied>>

\* ---- data_w: queue the level behind every callback already queued ----
synchronize(queue, param) == Append(queue, param)

\* mutant: the level is stored at once, and the callback is queued as well
data_w_immediate(state) ==
    /\ Len(submitted) < MaxEdges
    /\ m_host_data_in' = (IF state # 0 THEN 1 ELSE 0)
    /\ sync_queue' = synchronize(sync_queue, state)
    /\ submitted' = Append(submitted, state)
    /\ kbd_last' = KbdOp("data_w", state, 0, <<>>)
    /\ UNCHANGED <<snd_vars, line_level, m_row_drive, m_host_clock_out, m_host_data_out,
                   rows, applied>>

data_w(state) ==
    /\ Len(submitted) < MaxEdges
    /\ sync_queue' = synchronize(sync_queue, state)
    /\ submitted' = Append(submitted, state)
    /\ kbd_last' = KbdOp("data_w", state, 0, <<>>)
    /\ UNCHANGED <<snd_vars, line_level, m_row_drive, m_host_clock_out, m_host_data_out, m_host_data_in,
                   rows, applied>>

\* ---- update_host_data: the queued callback ----
\* mutant: the new level is stored as a constant 1 instead of the requested one
update_host_data_value_stuck(param, host_data_in) ==
    IF (param # 0) # (host_data_in # 0) THEN 1 ELSE host_data_in

update_host_data_value(param, host_data_in) ==
    IF (param # 0) # (host_data_in # 0)
    THEN (IF param # 0 THEN 1 ELSE 0)
    ELSE host_data_in

update_host_data ==
    /\ sync_queue # <<>>
    /\ m_host_data_in' = update_host_data_value(Head(sync_queue), m_host_data_in)
    /\ sync_queue' = Tail(sync_queue)
    /\ applied' = applied + 1
    /\ kbd_last' = KbdOp("update_host_data", Head(sync_queue),
                         Len(Tail(sync_queue)), <<>>)
    /\ UNCHANGED <<snd_vars, line_level, m_row_drive, m_host_clock_out, m_host_data_out, rows, submitted>>

\* ---- p1_w ----
\* mutant: the two high row bits are not kept
p1_w_row_drive_low(row_drive, data) == BitOr(BitAnd(row_drive, 0), data)

p1_w_row_drive(row_drive, data) == BitOr(BitAnd(row_drive, 768), data)

p1_w(data) ==
    /\ m_row_drive' = p1_w_row_drive(m_row_drive, data)
    /\ kbd_last' = KbdOp("p1_w", data, 0, <<>>)
    /\ UNCHANGED <<snd_vars, line_level, m_host_clock_out, m_host_data_out, m_host_data_in,
                   rows, sync_queue, submitted, applied>>

\* ---- p2_w ----
p2_w_row_drive(row_drive, data) ==
    BitOr(BitAnd(row_drive, 255), BitAnd(data, 3) * 256)

\* One line event, with the drive state of the device at the moment it is emitted.
LineEvent(line, level, clock_out, data_out) ==
    [line |-> line, level |-> level, clock_out |-> clock_out, data_out |-> data_out]

\* The clock/data part of p2_w: the new drive levels and the events emitted, in order.
\* mutant: the data line is pushed to the host on every write (level-triggered)
p2_w_lines_level(data, clock_out, data_out) ==
    LET clock_changed == BIT(data, 6) # clock_out
        clock1 == IF clock_changed THEN BIT(data, 6) ELSE clock_out
        ev1 == IF clock_changed
               THEN <<LineEvent("clock", clock1, clock1, data_out)>>
               ELSE <<>>
        data1 == BIT(data, 7)
    IN  [clock_out |-> clock1, data_out |-> data1,
         events |-> ev1 \o <<LineEvent("data", data1, clock1, data1)>>]

\* mutant: the line callbacks are given the level held before the write
p2_w_lines_stale(data, clock_out, data_out) ==
    LET clock_changed == BIT(data, 6) # clock_out
        clock1 == IF clock_changed THEN BIT(data, 6) ELSE clock_out
        ev1 == IF clock_changed
               THEN <<LineEvent("clock", clock_out, clock1, data_out)>>
               ELSE <<>>
        data_changed == BIT(data, 7) # data_out
        data1 == IF data_changed THEN BIT(data, 7) ELSE data_out
        ev2 == IF data_changed
               THEN <<LineEvent("data", data_out, clock1, data1)>>
               ELSE <<>>
    IN  [clock_out |-> clock1, data_out |-> data1, events |-> ev1 \o ev2]

\* mutant: the data line is handled before the clock line
p2_w_lines_swapped(data, clock_out, data_out) ==
    LET data_changed == BIT(data, 7) # data_out
        data1 == IF data_changed THEN BIT(data, 7) ELSE data_out
        ev1 == IF data_changed
               THEN <<LineEvent("data", data1, clock_out, data1)>>
               ELSE <<>>
        clock_changed == BIT(data, 6) # clock_out
        clock1 == IF clock_changed THEN BIT(data, 6) ELSE clock_out
        ev2 == IF clock_changed
               THEN <<LineEvent("clock", clock1, clock1, data1)>>
               ELSE <<>>
    IN  [clock_out |-> clock1, data_out |-> data1, events |-> ev1 \o ev2]

p2_w_lines(data, clock_out, data_out) ==
    LET clock_changed == BIT(data, 6) # clock_out
        clock1 == IF clock_changed THEN BIT(data, 6) ELSE clock_out
        ev1 == IF clock_changed
               THEN <<LineEvent("clock", clock1, clock1, data_out)>>
               ELSE <<>>
        data_changed == BIT(data, 7) # data_out
        data1 == IF data_changed THEN BIT(data, 7) ELSE data_out
        ev2 == IF data_changed
               THEN <<LineEvent("data", data1, clock1, data1)>>
               ELSE <<>>
    IN  [clock_out |-> clock1, data_out |-> data1, events |-> ev1 \o ev2]

\* write_clock / write_data: the level each line carries after the events
RECURSIVE EventLevels(_, _)
EventLevels(levels, events) ==
    IF events = <<>> THEN levels
    ELSE EventLevels([levels EXCEPT ![Head(events).line] = Head(events).level],
                     Tail(events))

p2_w(data) ==
    LET r == p2_w_lines(data, m_host_clock_out, m_host_data_out) IN
    /\ m_row_drive' = p2_w_row_drive(m_row_drive, data)
    /\ m_host_clock_out' = r.clock_out
    /\ m_host_data_out' = r.data_out
    /\ kbd_last' = KbdOp("p2_w", data,
                         [clock_out |-> m_host_clock_out, data_out |-> m_host_data_out],
                         r.events)
    /\ line_level' = EventLevels(line_level, r.events)
    /\ UNCHANGED <<snd_vars, m_host_data_in, rows, sync_queue, submitted, applied>>

\* ---- bus_r ----
RECURSIVE bus_r_loop(_, _, _, _)
bus_r_loop(i, result, row_drive, rws) ==
    IF ~(NumRows > i) THEN result
    ELSE bus_r_loop(i + 1,
                    IF BIT(row_drive, i) = 0 THEN BitAnd(result, rws[i]) ELSE result,
                    row_drive, rws)

\* mutant: the row drive is read through a u8, so rows 8 and 9 are never selected
bus_r_result_u8(row_drive, rws) ==
    bus_r_loop(0, 255, BitOr(BitAnd(row_drive, 255), 768), rws)

bus_r_result(row_drive, rws) == bus_r_loop(0, 255, row_drive, rws)

bus_r ==
    /\ kbd_last' = KbdOp("bus_r", 0, bus_r_result(m_row_drive, rows), <<>>)
    /\ UNCHANGED <<snd_vars, line_level, m_row_drive, m_host_clock_out, m_host_data_out, m_host_data_in,
                   rows, sync_queue, submitted, applied>>

\* ---- the input system changes what a row port reads ----
KeyChange(i, v) ==
    /\ rows[i] # v
    /\ rows' = [rows EXCEPT ![i] = v]
    /\ kbd_last' = KbdOp("key", i, v, <<>>)
    /\ UNCHANGED <<snd_vars, line_level, m_row_drive, m_host_clock_out, m_host_data_out, m_host_data_in,
                   sync_queue, submitted, applied>>

KbdNext ==
    \/ host_data_r
    \/ \E s \in LineStates : data_w(s)
    \/ update_host_data
    \/ \E d \in P1Values : p1_w(d)
    \/ \E d \in P2Values : p2_w(d)
    \/ bus_r
    \/ \E i \in KeyRows, v \in RowValues : KeyChange(i, v)

(***************************************************************************)
(*                     KEYBOARD: PROPERTIES                                *)
(***************************************************************************)

\* rows selected by a row-drive pattern (active low)
SelectedRows(row_drive) == {i \in 0..(NumRows - 1) : BIT(row_drive, i) = 0}

\* C1: ReadColumns (bus_r) returns the bitwise AND of MatrixRow[i] over exactly
\* the rows whose RowDriveMask bit is 0: column bit b is 1 iff every selected
\* row has bit b set.  It is 0xFF with no row selected, the row's snapshot with
\* one row selected, MatrixRow[i] & MatrixRow[j] with exactly rows i # j
\* selected.  The rows are those present at the time of the call.
C1_ReadColumns ==
    kbd_last.op = "bus_r" =>
        LET sel == SelectedRows(m_row_drive)
            res == kbd_last.result
        IN  /\ res \in 0..255
            /\ \A b \in 0..7 : (BIT(res, b) = 1) <=> (\A i \in sel : BIT(rows[i], b) = 1)
            /\ (sel = {} => res = 255)
            /\ \A i \in sel : (sel = {i} => res = rows[i])
            /\ \A i, j \in sel : (i # j /\ sel = {i, j}) => res = BitAnd(rows[i], rows[j])

\* C1 witness: a column read with exactly two rows selected, each with keys
\* held, whose result differs from both rows' snapshots.
C1_Witness ==
    /\ kbd_last.op = "bus_r"
    /\ \E i, j \in SelectedRows(m_row_drive) :
          /\ i # j
          /\ SelectedRows(m_row_drive) = {i, j}
          /\ kbd_last.result = BitAnd(rows[i], rows[j])
          /\ kbd_last.result # rows[i]
          /\ kbd_last.result # rows[j]

\* the drive levels before the last p2_w, and what the write asked for
P2Prev == kbd_last.result
P2ClockChanged == BIT(kbd_last.arg, 6) # P2Prev.clock_out
P2DataChanged == BIT(kbd_last.arg, 7) # P2Prev.data_out
EventsOn(line) == SelectSeq(kbd_last.events, LAMBDA e : e.line = line)

\* C2: a p2_w whose bits 6 and 7 equal HostClockOut and HostDataOut emits no
\* event; one that changes only bit 7 emits exactly one data-line event and no
\* clock-line event; one that changes only bit 6 emits exactly one clock-line
\* event and no data-line event.
C2_EdgeTriggered ==
    kbd_last.op = "p2_w" =>
        /\ (~P2ClockChanged /\ ~P2DataChanged) => kbd_last.events = <<>>
        /\ (~P2ClockChanged /\ P2DataChanged) =>
              /\ Len(EventsOn("data")) = 1
              /\ Len(EventsOn("clock")) = 0
              /\ Len(kbd_last.events) = 1
        /\ (P2ClockChanged /\ ~P2DataChanged) =>
              /\ Len(EventsOn("clock")) = 1
              /\ Len(EventsOn("data")) = 0
              /\ Len(kbd_last.events) = 1

\* C2 witness: a p2_w that changed only the data bit and emitted its one event.
C2_Witness ==
    /\ kbd_last.op = "p2_w"
    /\ ~P2ClockChanged
    /\ P2DataChanged
    /\ Len(kbd_last.events) = 1
    /\ kbd_last.events[1].line = "data"

\* the level the host data line carries after `n` of the submitted requests
LevelAfter(n) == IF n = 0 THEN 1 ELSE submitted[n]

\* C3: host data requests are applied in submission order under every
\* interleaving with the firmware's port reads and writes: the requests not yet
\* applied are exactly the latest submissions, in order; HostDataIn (and so
\* ReadHostDataLine) shows the level of the latest applied request, never a
\* later one; with nothing pending HostDataIn is the last submitted level.
C3_DeferredOrder ==
    /\ applied <= Len(submitted)
    /\ sync_queue = SubSeq(submitted, applied + 1, Len(submitted))
    /\ m_host_data_in = LevelAfter(applied)
    /\ (kbd_last.op = "host_data_r" => kbd_last.result = 1 - LevelAfter(applied))
    /\ (sync_queue = <<>> => m_host_data_in = LevelAfter(Len(submitted)))

\* C3 witness: of two requests of different levels pending together, the
\* first has just been applied while the second is still queued behind it.
C3_Witness ==
    /\ kbd_last.op = "update_host_data"
    /\ kbd_last.result = 1
    /\ applied = 1
    /\ Len(submitted) = 2
    /\ submitted[1] = 0
    /\ submitted[2] = 1
    /\ m_host_data_in = 0

\* C10: a p2_w that changes both the clock and the data level emits the clock
\* event first and the data event second, and HostDataOut still has its
\* previous value when the clock event is emitted.
C10_ClockBeforeData ==
    (kbd_last.op = "p2_w" /\ P2ClockChanged /\ P2DataChanged) =>
        /\ Len(kbd_last.events) = 2
        /\ kbd_last.events[1].line = "clock"
        /\ kbd_last.events[1].level = BIT(kbd_last.arg, 6)
        /\ kbd_last.events[1].data_out = P2Prev.data_out
        /\ kbd_last.events[2].line = "data"
        /\ kbd_last.events[2].level = BIT(kbd_last.arg, 7)

\* C10 witness: a p2_w that changed both lines.
C10_Witness ==
    /\ kbd_last.op = "p2_w"
    /\ P2ClockChanged
    /\ P2DataChanged
    /\ Len(kbd_last.events) = 2

\* C11: a host data edge is never applied at once: data_w leaves HostDataIn
\* (and so what ReadHostDataLine returns) unchanged; HostDataIn changes only
\* when the queued callback update_host_data runs, not in p1_w, p2_w, bus_r or
\* host_data_r; and the callback changes neither RowDriveMask, HostClockOut nor
\* HostDataOut and emits no line event.
C11_DeferredApply ==
    [][/\ (kbd_last'.op = "data_w" =>
              /\ m_host_data_in' = m_host_data_in
              /\ host_data_r_value(m_host_data_in') = host_data_r_value(m_host_data_in)
              /\ Len(sync_queue') = Len(sync_queue) + 1)
       /\ (m_host_data_in' # m_host_data_in => kbd_last'.op = "update_host_data")
       /\ (kbd_last'.op \in {"p1_w", "p2_w", "bus_r", "host_data_r"} =>
              m_host_data_in' = m_host_data_in)
       /\ (kbd_last'.op = "update_host_data" =>
              /\ UNCHANGED <<m_row_drive, m_host_clock_out, m_host_data_out>>
              /\ kbd_last'.events = <<>>)
    ]_vars

\* C11 witness: a request for the other level has been submitted and is still
\* queued; the host data line as read by the firmware has not moved.
C11_Witness ==
    /\ kbd_last.op = "data_w"
    /\ kbd_last.arg = 0
    /\ sync_queue = <<0>>
    /\ m_host_data_in = 1

\* C18: ReadHostDataLine (host_data_r) returns HostDataIn XOR 1, HostDataIn
\* being the level of the most recently applied host request (1 if none was
\* applied); it returns 0 while the host line is idle-high.
C18_HostDataPolarity ==
    /\ m_host_data_in \in {0, 1}
    /\ m_host_data_in = (IF applied = 0 THEN 1 ELSE submitted[applied])
    /\ kbd_last.op = "host_data_r" =>
          /\ (m_host_data_in = 1 => kbd_last.result = 0)
          /\ (m_host_data_in = 0 => kbd_last.result = 1)

\* C18 witness: the host line read after a low level has been applied.
C18_Witness ==
    /\ kbd_last.op = "host_data_r"
    /\ applied >= 1
    /\ m_host_data_in = 0
    /\ kbd_last.result = 1

\* C19: at start, before any port write or host edge, RowDriveMask is 0x3FF (no
\* row selected, so a column read gives 0xFF), HostClockOut, HostDataOut and
\* HostDataIn are 1, and no line event has been emitted.
C19_ResetState ==
    kbd_last.op = "start" =>
        /\ m_row_drive = 1023
        /\ SelectedRows(m_row_drive) = {}
        /\ bus_r_result(m_row_drive, rows) = 255
        /\ m_host_clock_out = 1
        /\ m_host_data_out = 1
        /\ m_host_data_in = 1
        /\ host_data_r_value(m_host_data_in) = 0
        /\ kbd_last.events = <<>>
        /\ sync_queue = <<>>

\* C19 witness: the state device_start leaves.
C19_Witness ==
    /\ kbd_last.op = "start"
    /\ m_row_drive = 1023
    /\ sync_queue = <<>>
    /\ applied = 0

\* C20: p1_w(b) sets RowDriveMask bits 0-7 to b and leaves bits 8-9,
\* HostClockOut and HostDataOut unchanged, emitting no event; p2_w(b) sets bits
\* 8-9 to bits 0-1 of b and leaves bits 0-7 unchanged; no other operation
\* changes RowDriveMask, which never exceeds 0x3FF.
C20_RowDriveWrites ==
    /\ [](m_row_drive \in 0..1023)
    /\ [][/\ (kbd_last'.op = "p1_w" =>
                 /\ \A b \in 0..7 : BIT(m_row_drive', b) = BIT(kbd_last'.arg, b)
                 /\ \A b \in 8..9 : BIT(m_row_drive', b) = BIT(m_row_drive, b)
                 /\ UNCHANGED <<m_host_clock_out, m_host_data_out>>
                 /\ kbd_last'.events = <<>>)
          /\ (kbd_last'.op = "p2_w" =>
                 /\ \A b \in 0..1 : BIT(m_row_drive', b + 8) = BIT(kbd_last'.arg, b)
                 /\ \A b \in 0..7 : BIT(m_row_drive', b) = BIT(m_row_drive, b))
          /\ (m_row_drive' # m_row_drive => kbd_last'.op \in {"p1_w", "p2_w"})
       ]_vars

\* C20 witness: a p1_w that rewrote the low byte while row bit 8 was set and
\* row bit 9 clear, both kept.
C20_Witness ==
    /\ kbd_last.op = "p1_w"
    /\ kbd_last.arg = 254
    /\ m_row_drive = 510

\* the level a line carries at the host: that of the last event, 1 if none yet
CarriedLevel(l) == IF l = -1 THEN 1 ELSE l

\* C23: after any sequence of port writes and host edges, HostClockOut equals
\* the level of the most recent clock-line event (1 if none was emitted) and
\* HostDataOut that of the most recent data-line event (1 if none); two
\* consecutive events on the same line always carry opposite levels.
C23_LineStateConsistent ==
    /\ [](/\ m_host_clock_out = CarriedLevel(line_level.clock)
          /\ m_host_data_out = CarriedLevel(line_level.data))
    /\ [][\A k \in 1..Len(kbd_last'.events) :
             LET e == kbd_last'.events[k] IN
             /\ e.level \in {0, 1}
             /\ e.level # CarriedLevel(line_level[e.line])
             /\ \A j \in 1..(k - 1) : kbd_last'.events[j].line # e.line
       ]_<<line_level, kbd_last>>

\* C23 witness: the clock line was driven low and is now driven high again, the
\* data line stays low after its only event.
C23_Witness ==
    /\ kbd_last.op = "p2_w"
    /\ kbd_last.result.clock_out = 0
    /\ Len(kbd_last.events) = 1
    /\ line_level = [clock |-> 1, data |-> 0]
    /\ m_host_clock_out = 1
    /\ m_host_data_out = 0

(***************************************************************************)
(*                        Y8950 FM + ADPCM-B CHIP                          *)
(***************************************************************************)

\* ---- status bits (y8950.h, ymfm.h) ----
STATUS_TIMERA == 64
STATUS_TIMERB == 32
STATUS_ADPCM_B_EOS == 16
STATUS_ADPCM_B_BRDY == 8
STATUS_ADPCM_B_PLAYING == 1
ALL_IRQS ==
    BitOr(BitOr(STATUS_ADPCM_B_BRDY, STATUS_ADPCM_B_EOS),
          BitOr(STATUS_TIMERA, STATUS_TIMERB))
\* flags of the ADPCM-B channel's own status
CHAN_STATUS_EOS == 1
CHAN_STATUS_BRDY == 2
CHAN_STATUS_PLAYING == 4

\* ---- bounds and input sets of the sound chip model ----
\* bytes written to the address port
AddrValues == 0..32
\* bytes written to the data port
DataValues == {0, 165}
\* bus offsets of the two ports (offset & 1 selects the port)
AddressOffsets == {0}
ReadDataOffsets == {1, 9}
WriteDataOffsets == {1}
\* bytes the engines and the external read handlers answer with
ReadValues == {0, 90}
\* flags the FM engine raises by itself (timer B)
FmFlags == {32}
\* status values the ADPCM-B engine shows after being clocked
AdpcmStatusValues == {0, 1, 6}
\* per-tick outputs <<FM, ADPCM-B>> of the two engines
TickOutputs == {<<777, 0>>, <<777, 300>>, <<32767, 300>>}
\* samples the stream may lag behind "now"
MaxPending == 1
\* the accumulator values the DAC conversion is applied to: -MaxSum..MaxSum
MaxSum == 33000
SumValues == (-MaxSum)..MaxSum

Call(fn, a, v) == [fn |-> fn, a |-> a, v |-> v]

SndOp(op, offset, arg, result, calls, samples) ==
    [op |-> op, offset |-> offset, arg |-> arg, result |-> result,
     calls |-> calls, samples |-> samples]

\* ---- constructor and device_start ----
SndInit ==
    /\ m_address = 0
    /\ m_io_ddr = 0
    /\ m_irq_mask = ALL_IRQS
    /\ opl_status = 0
    /\ opl_irq_mask = BitOr(BitOr(STATUS_TIMERA, STATUS_TIMERB),
                            BitOr(STATUS_ADPCM_B_BRDY, STATUS_ADPCM_B_EOS))
    /\ adpcm_status = 0
    /\ pending = 0
    /\ snd_last = SndOp("start", 0, 0, 0, <<>>, <<>>)

\* ---- the FM engine's set_reset_status ----
set_reset_status(status, set, reset) ==
    BitAnd(BitOr(status, set), BitNot8(reset))

\* ---- combine_status ----
combine_status_raw(fm_status, chan_status) ==
    LET s1 == IF BitAnd(chan_status, CHAN_STATUS_EOS) # 0
              THEN BitOr(fm_status, STATUS_ADPCM_B_EOS) ELSE fm_status
        s2 == IF BitAnd(chan_status, CHAN_STATUS_BRDY) # 0
              THEN BitOr(s1, STATUS_ADPCM_B_BRDY) ELSE s1
        s3 == IF BitAnd(chan_status, CHAN_STATUS_PLAYING) # 0
              THEN BitOr(s2, STATUS_ADPCM_B_PLAYING) ELSE s2
    IN  s3

\* mutant: the combined status is returned without applying the IRQ mask
combine_status_value_unmasked(fm_status, chan_status, irq_mask) ==
    combine_status_raw(fm_status, chan_status)

combine_status_value(fm_status, chan_status, irq_mask) ==
    BitAnd(combine_status_raw(fm_status, chan_status), irq_mask)

\* mutant: the result is only set in the FM engine's status, nothing is reset
combine_status_set_only(fm_status, chan_status, irq_mask) ==
    LET status == combine_status_value(fm_status, chan_status, irq_mask) IN
    [status |-> status,
     opl_status |-> set_reset_status(fm_status, status, 0),
     calls |-> <<Call("opn.status", 0, fm_status),
                 Call("adpcm_b.status", 0, chan_status),
                 Call("opn.set_reset_status", status, 0)>>]

\* the result, the FM engine's status afterwards, and the engine calls made
combine_status(fm_status, chan_status, irq_mask) ==
    LET status == combine_status_value(fm_status, chan_status, irq_mask) IN
    [status |-> status,
     opl_status |-> set_reset_status(fm_status, status, BitNot8(status)),
     calls |-> <<Call("opn.status", 0, fm_status),
                 Call("adpcm_b.status", 0, chan_status),
                 Call("opn.set_reset_status", status, BitNot8(status))>>]

\* ---- the DAC conversion and the stream's clamp (ymfm.h, sound.h) ----
RECURSIVE MsbIndex(_)
MsbIndex(x) == IF x <= 1 THEN 0 ELSE 1 + MsbIndex(x \div 2)

Max(a, b) == IF a >= b THEN a ELSE b

ymfm_roundtrip_fp(value) ==
    IF value < -32768 THEN -32768
    ELSE IF value > 32767 THEN 32767
    ELSE LET scanvalue == IF value < 0 THEN -value - 1 ELSE value
             exponent == IF scanvalue = 0 THEN 1
                         ELSE Max(MsbIndex(scanvalue) - 7, 1)
             shift == exponent - 1
         IN  (value \div (2 ^ shift)) * (2 ^ shift)

put_int_clamp(sample, maxclamp) ==
    IF sample < -maxclamp THEN -maxclamp
    ELSE IF sample > maxclamp - 1 THEN maxclamp - 1
    ELSE sample

\* ---- sound_stream_update ----
\* the accumulator "sum" of one tick: reset to 0, the FM output added by
\* m_opl.output(&sum, ...); m_adpcm_b.output(sums, ...) is handed "sums", not "sum"
sample_sum(fm_out, adpcm_out) == 0 + fm_out

sample_order ==
    <<"opl.clock", "adpcm_b.clock", "opl.output", "adpcm_b.output", "put_int_clamp">>

\* mutant: the sample is clamped to half the output range
emitted_sample_half(sum) == put_int_clamp(ymfm_roundtrip_fp(sum), 16384)

\* outputs[0].put_int_clamp(sampindex, ymfm_roundtrip_fp(sum), 32768)
emitted_sample(sum) == put_int_clamp(ymfm_roundtrip_fp(sum), 32768)

one_sample(fm_out, adpcm_out) ==
    [fm |-> fm_out, adpcm |-> adpcm_out,
     sum |-> sample_sum(fm_out, adpcm_out),
     emitted |-> emitted_sample(sample_sum(fm_out, adpcm_out)),
     order |-> sample_order]

\* outs: the engines' outputs for each of the samples asked for
sound_stream_update(outs) ==
    [k \in 1..Len(outs) |-> one_sample(outs[k][1], outs[k][2])]

EngineOutputs(n) == [1..n -> TickOutputs]

\* ADPCM-B status after the engine was clocked n times
ClockedAdpcmStatus(n) == IF n = 0 THEN {adpcm_status} ELSE AdpcmStatusValues

\* ---- read ----
\* the engines take their register number as a byte
read_data_calls(address, offset, answer) ==
    CASE address = 5 -> <<Call("keyboard_read_handler", 0, answer)>>
      [] address \in {9, 26} ->
            <<Call("adpcm_b.read", (offset - 7) % (2 ^ 8), answer)>>
      [] address = 25 -> <<Call("io_read_handler", 0, answer)>>
      [] OTHER -> <<>>

\* mutant: result starts out as 0 instead of 0xff
read_data_result_zero(address, answer) ==
    IF address \in {5, 9, 26, 25} THEN answer ELSE 0

read_data_result(address, answer) ==
    IF address \in {5, 9, 26, 25} THEN answer ELSE 255

read(offset, answer) ==
    IF offset % 2 = 0
    THEN LET c == combine_status(opl_status, adpcm_status, m_irq_mask) IN
         /\ opl_status' = c.opl_status
         /\ snd_last' = SndOp("read_status", offset, 0, c.status, c.calls, <<>>)
         /\ UNCHANGED <<kbd_vars, m_address, m_io_ddr, m_irq_mask, opl_irq_mask,
                        adpcm_status, pending>>
    ELSE /\ snd_last' = SndOp("read_data", offset, 0,
                              read_data_result(m_address, answer),
                              read_data_calls(m_address, offset, answer), <<>>)
         /\ UNCHANGED <<kbd_vars, m_address, m_io_ddr, m_irq_mask, opl_status, opl_irq_mask,
                        adpcm_status, pending>>

\* ---- write ----
AdpcmRegisterAddresses == {7, 10, 11, 12, 13, 14, 15, 16, 17, 18, 21, 22, 23}

\* mutant: the written value is taken as the mask without inverting it
write_irq_mask_plain(address, value, irq_mask) ==
    IF address = 4 THEN BitAnd(value, ALL_IRQS) ELSE irq_mask

write_irq_mask(address, value, irq_mask) ==
    IF address = 4 THEN BitAnd(BitNot8(value), ALL_IRQS) ELSE irq_mask

\* mutant: the whole byte is kept as the direction mask
write_io_ddr_byte(address, value, io_ddr) ==
    IF address = 24 THEN value ELSE io_ddr

write_io_ddr(address, value, io_ddr) ==
    IF address = 24 THEN BitAnd(value, 15) ELSE io_ddr

\* mutant: address 0x09 is taken for one of the ADPCM-B registers
write_data_calls_range(address, value, io_ddr) ==
    CASE address = 4 ->
            <<Call("opl.set_irq_mask", 0, write_irq_mask(address, value, 0)),
              Call("opl.write", address, value)>>
      [] address = 6 -> <<Call("keyboard_write_handler", 0, value)>>
      [] address = 8 ->
            <<Call("adpcm_b.write", address - 7, BitAnd(value, 15)),
              Call("opl.write", address, BitAnd(value, 192))>>
      [] address \in AdpcmRegisterAddresses \cup {9} ->
            <<Call("adpcm_b.write", address - 7, value)>>
      [] address = 24 -> <<>>
      [] address = 25 -> <<Call("io_write_handler", 0, BitAnd(value, io_ddr))>>
      [] OTHER -> <<Call("opl.write", address, value)>>

\* mutant: the I/O handler is not called while no line is an output
write_data_calls_gated(address, value, io_ddr) ==
    CASE address = 4 ->
            <<Call("opl.set_irq_mask", 0, write_irq_mask(address, value, 0)),
              Call("opl.write", address, value)>>
      [] address = 6 -> <<Call("keyboard_write_handler", 0, value)>>
      [] address = 8 ->
            <<Call("adpcm_b.write", address - 7, BitAnd(value, 15)),
              Call("opl.write", address, BitAnd(value, 192))>>
      [] address \in AdpcmRegisterAddresses ->
            <<Call("adpcm_b.write", address - 7, value)>>
      [] address = 24 -> <<>>
      [] address = 25 ->
            IF io_ddr = 0 THEN <<>>
            ELSE <<Call("io_write_handler", 0, BitAnd(value, io_ddr))>>
      [] OTHER -> <<Call("opl.write", address, value)>>

\* the engine and handler calls of the data-port switch (before combine_status)
write_data_calls(address, value, io_ddr) ==
    CASE address = 4 ->
            <<Call("opl.set_irq_mask", 0, write_irq_mask(address, value, 0)),
              Call("opl.write", address, value)>>
      [] address = 6 -> <<Call("keyboard_write_handler", 0, value)>>
      [] address = 8 ->
            <<Call("adpcm_b.write", address - 7, BitAnd(value, 15)),
              Call("opl.write", address, BitAnd(value, 192))>>
      [] address \in AdpcmRegisterAddresses ->
            <<Call("adpcm_b.write", address - 7, value)>>
      [] address = 24 -> <<>>
      [] address = 25 -> <<Call("io_write_handler", 0, BitAnd(value, io_ddr))>>
      [] OTHER -> <<Call("opl.write", address, value)>>

\* mutant: the stream is updated after the register has been written
write_call_order_late(flush, dispatch) == dispatch \o flush

\* where m_stream->update() stands among the calls of a data-port write
write_call_order(flush, dispatch) == flush \o dispatch

write(offset, value) ==
    IF offset % 2 = 0
    THEN /\ m_address' = value
         /\ snd_last' = SndOp("write_address", offset, value, 0, <<>>, <<>>)
         /\ UNCHANGED <<kbd_vars, m_io_ddr, m_irq_mask, opl_status, opl_irq_mask,
                        adpcm_status, pending>>
    ELSE \E outs \in EngineOutputs(pending), ast \in ClockedAdpcmStatus(pending) :
         LET mask == write_irq_mask(m_address, value, m_irq_mask)
             c == combine_status(opl_status, ast, mask)
             dispatch == write_data_calls(m_address, value, m_io_ddr)
                         \o (IF m_address = 4 THEN c.calls ELSE <<>>)
         IN
         /\ pending' = 0
         /\ adpcm_status' = ast
         /\ m_irq_mask' = mask
         /\ opl_irq_mask' = IF m_address = 4 THEN mask ELSE opl_irq_mask
         /\ m_io_ddr' = write_io_ddr(m_address, value, m_io_ddr)
         /\ opl_status' = IF m_address = 4 THEN c.opl_status ELSE opl_status
         /\ snd_last' = SndOp("write_data", offset, value, 0,
                              write_call_order(<<Call("stream.update", 0, pending)>>,
                                               dispatch),
                              sound_stream_update(outs))
         /\ UNCHANGED <<kbd_vars, m_address>>

\* ---- device_reset ----
\* mutant: reset clears the address latch as well
device_reset_latch ==
    LET c == combine_status(0, 0, m_irq_mask) IN
    /\ m_address' = 0
    /\ opl_status' = c.opl_status
    /\ adpcm_status' = 0
    /\ snd_last' = SndOp("device_reset", 0, 0, c.status,
                         <<Call("opl.reset", 0, 0), Call("adpcm_b.reset", 0, 0)>>
                         \o c.calls, <<>>)
    /\ UNCHANGED <<kbd_vars, m_io_ddr, m_irq_mask, opl_irq_mask, pending>>

device_reset ==
    LET c == combine_status(0, 0, m_irq_mask) IN
    /\ opl_status' = c.opl_status
    /\ adpcm_status' = 0
    /\ snd_last' = SndOp("device_reset", 0, 0, c.status,
                         <<Call("opl.reset", 0, 0), Call("adpcm_b.reset", 0, 0)>>
                         \o c.calls, <<>>)
    /\ UNCHANGED <<kbd_vars, m_address, m_io_ddr, m_irq_mask, opl_irq_mask, pending>>

\* ---- rom_bank_updated, and the mixer asking the stream for its samples ----
stream_update(op) ==
    \E outs \in EngineOutputs(pending), ast \in ClockedAdpcmStatus(pending) :
    /\ pending' = 0
    /\ adpcm_status' = ast
    /\ snd_last' = SndOp(op, 0, 0, 0, <<Call("stream.update", 0, pending)>>,
                         sound_stream_update(outs))
    /\ UNCHANGED <<kbd_vars, m_address, m_io_ddr, m_irq_mask, opl_status, opl_irq_mask>>

rom_bank_updated == stream_update("rom_bank_updated")

mixer_update == pending > 0 /\ stream_update("mixer_update")

\* ---- the scheduler: one more sample period has passed ----
Tick ==
    /\ pending < MaxPending
    /\ pending' = pending + 1
    /\ snd_last' = SndOp("tick", 0, 0, 0, <<>>, <<>>)
    /\ UNCHANGED <<kbd_vars, m_address, m_io_ddr, m_irq_mask, opl_status, opl_irq_mask,
                   adpcm_status>>

\* ---- the FM engine raises one of its own flags ----
engine_flag(f) ==
    /\ BitAnd(opl_status, f) = 0
    /\ opl_status' = BitOr(opl_status, f)
    /\ snd_last' = SndOp("engine_flag", 0, f, 0, <<>>, <<>>)
    /\ UNCHANGED <<kbd_vars, m_address, m_io_ddr, m_irq_mask, opl_irq_mask, adpcm_status,
                   pending>>

SndNext ==
    \/ \E o \in AddressOffsets : read(o, 0)
    \/ \E o \in ReadDataOffsets, r \in ReadValues : read(o, r)
    \/ \E o \in AddressOffsets, v \in AddrValues : write(o, v)
    \/ \E o \in WriteDataOffsets, v \in DataValues : write(o, v)
    \/ device_reset
    \/ rom_bank_updated
    \/ mixer_update
    \/ Tick
    \/ \E f \in FmFlags : engine_flag(f)

Init == KbdInit /\ SndInit

\* ---- the DAC conversion of one accumulator value, on its own ----
\* the accumulator holds some value when the sample is converted
QuantInit ==
    /\ KbdInit
    /\ m_address = 0
    /\ m_io_ddr = 0
    /\ m_irq_mask = ALL_IRQS
    /\ opl_status = 0
    /\ opl_irq_mask = ALL_IRQS
    /\ adpcm_status = 0
    /\ pending = 0
    /\ \E x \in SumValues : snd_last = SndOp("sum", 0, x, x, <<>>, <<>>)

\* ymfm_roundtrip_fp applied to the accumulator, and once more to its result
quantize ==
    /\ snd_last.op \in {"sum", "roundtrip"}
    /\ Len(snd_last.calls) < 2
    /\ LET r == ymfm_roundtrip_fp(snd_last.result) IN
       snd_last' = SndOp("roundtrip", 0, snd_last.arg, r,
                         Append(snd_last.calls,
                                Call("ymfm_roundtrip_fp", snd_last.result, r)),
                         <<>>)
    /\ UNCHANGED <<kbd_vars, m_address, m_io_ddr, m_irq_mask, opl_status, opl_irq_mask,
                   adpcm_status, pending>>

\* the sample sound_stream_update emits for the accumulator
produce_sample ==
    /\ snd_last.op = "sum"
    /\ snd_last' = SndOp("sample", 0, snd_last.arg, emitted_sample(snd_last.arg),
                         <<>>, <<>>)
    /\ UNCHANGED <<kbd_vars, m_address, m_io_ddr, m_irq_mask, opl_status, opl_irq_mask,
                   adpcm_status, pending>>

QuantNext ==
    \/ quantize
    \/ produce_sample

KbdSpec == Init /\ [][KbdNext]_vars

SndSpec == Init /\ [][SndNext]_vars
QuantSpec == QuantInit /\ [][QuantNext]_vars

(***************************************************************************)
(*                     SOUND CHIP: PROPERTIES                              *)
(***************************************************************************)

\* C4: ReadStatusPort returns exactly s & m, where s is the FM engine's status
\* OR-ed with the ADPCM engine's flags (EOS, BRDY, PLAYING at their place in
\* the status byte) and m is IrqEnableMask: bit b of the result is set iff it
\* is set in m and in s; a bit disabled by the mask never appears.
C4_StatusMask ==
    snd_last.op = "read_status" =>
        LET fm == snd_last.calls[1].v
            ch == snd_last.calls[2].v
            raw(b) == \/ BIT(fm, b) = 1
                      \/ (b = 4 /\ BIT(ch, 0) = 1)
                      \/ (b = 3 /\ BIT(ch, 1) = 1)
                      \/ (b = 0 /\ BIT(ch, 2) = 1)
        IN  /\ snd_last.calls[1].fn = "opn.status"
            /\ snd_last.calls[2].fn = "adpcm_b.status"
            /\ snd_last.result \in 0..255
            /\ \A b \in 0..7 :
                  (BIT(snd_last.result, b) = 1) <=> (BIT(m_irq_mask, b) = 1 /\ raw(b))

\* C4 witness: a status read in which the mask lets one raised flag through
\* and hides another one that is enabled by no write (timer B under 0x58).
C4_Witness ==
    /\ snd_last.op = "read_status"
    /\ BIT(snd_last.calls[1].v, 5) = 1
    /\ BIT(m_irq_mask, 5) = 0
    /\ BIT(snd_last.calls[2].v, 0) = 1
    /\ BIT(snd_last.result, 4) = 1
    /\ BIT(snd_last.result, 5) = 0

\* the register and handler writes among the calls of the last operation
WriteFns == {"opl.write", "adpcm_b.write", "keyboard_write_handler", "io_write_handler"}
WritesOf(calls) == SelectSeq(calls, LAMBDA c : c.fn \in WriteFns)

\* the destinations the routing table gives for address a and data v
RoutedWrites(a, v, ddr) ==
    CASE a = 4 -> <<Call("opl.write", 4, v)>>
      [] a = 6 -> <<Call("keyboard_write_handler", 0, v)>>
      [] a = 7 \/ a \in 10..18 \/ a \in 21..23 -> <<Call("adpcm_b.write", a - 7, v)>>
      [] a = 8 -> <<Call("adpcm_b.write", 1, BitAnd(v, 15)),
                    Call("opl.write", 8, BitAnd(v, 192))>>
      [] a = 24 -> <<>>
      [] a = 25 -> <<Call("io_write_handler", 0, BitAnd(v, ddr))>>
      [] OTHER -> <<Call("opl.write", a, v)>>

\* C5: a data-port write with AddressLatch a and data v reaches exactly the
\* destinations of the routing table and no other: 0x04 sets the IRQ mask
\* (here and in the FM engine) and is forwarded to the FM engine; 0x06 only
\* the keyboard-write handler; 0x07, 0x0a..0x12, 0x15..0x17 only ADPCM register
\* a - 7; 0x08 ADPCM register 1 with v & 0x0f and FM register 8 with v & 0xc0;
\* 0x18 only the I/O direction latch; 0x19 only the I/O-write handler; every
\* other address only FM register a.
C5_WriteRouting ==
    [][snd_last'.op = "write_data" =>
          LET a == m_address
              v == snd_last'.arg
          IN  /\ WritesOf(snd_last'.calls) = RoutedWrites(a, v, m_io_ddr)
              /\ m_address' = a
              /\ m_irq_mask' =
                    (IF a = 4 THEN BitAnd(BitNot8(v), ALL_IRQS) ELSE m_irq_mask)
              /\ opl_irq_mask' = (IF a = 4 THEN m_irq_mask' ELSE opl_irq_mask)
              /\ m_io_ddr' = (IF a = 24 THEN BitAnd(v, 15) ELSE m_io_ddr)
              /\ (a # 4 => opl_status' = opl_status)
    ]_vars

\* C5 witness: a write to the split register 0x08 whose data byte has bits
\* outside both masks, routed to both engines.
C5_Witness ==
    /\ snd_last.op = "write_data"
    /\ m_address = 8
    /\ snd_last.arg = 165
    /\ WritesOf(snd_last.calls) =
          <<Call("adpcm_b.write", 1, 5), Call("opl.write", 8, 128)>>

\* C6: a data-port read with AddressLatch outside {0x05, 0x09, 0x19, 0x1a}
\* returns 0xFF, calls no engine and no handler, and leaves the latches and
\* both engines unchanged.
C6_UnexpectedRead ==
    [][(snd_last'.op = "read_data" /\ m_address \notin {5, 9, 25, 26}) =>
          /\ snd_last'.result = 255
          /\ snd_last'.calls = <<>>
          /\ snd_last'.samples = <<>>
          /\ UNCHANGED <<m_address, m_irq_mask, m_io_ddr, opl_status,
                         opl_irq_mask, adpcm_status, pending>>
    ]_vars

\* C6 witness: a data-port read at an address of the write-only ADPCM range.
C6_Witness ==
    /\ snd_last.op = "read_data"
    /\ m_address = 16
    /\ snd_last.result = 255
    /\ snd_last.calls = <<>>

\* C7: a data-port read with AddressLatch 0x09 or 0x1a reads the ADPCM engine
\* register AddressLatch - 0x07 (the translation of the ADPCM register
\* writes) and returns its value, whatever the bus offset of the port.
C7_AdpcmReadRegister ==
    (snd_last.op = "read_data" /\ m_address \in {9, 26}) =>
        /\ Len(snd_last.calls) = 1
        /\ snd_last.calls[1].fn = "adpcm_b.read"
        /\ snd_last.calls[1].a = m_address - 7
        /\ snd_last.result = snd_last.calls[1].v

\* C8: for each output tick the FM engine is clocked, then the ADPCM engine,
\* and the emitted sample is clamp(roundtrip(FM output + ADPCM output)).
C8_SampleMix ==
    \A k \in 1..Len(snd_last.samples) :
        LET smp == snd_last.samples[k] IN
        /\ smp.order[1] = "opl.clock"
        /\ smp.order[2] = "adpcm_b.clock"
        /\ smp.emitted = put_int_clamp(ymfm_roundtrip_fp(smp.fm + smp.adpcm), 32768)

\* C9: every data-port write, for every AddressLatch value, first updates the
\* stream, which produces every sample still due, and only then writes the
\* engine registers, latches and handlers; rom_bank_updated updates the stream
\* too.  Afterwards no sample is due.
C9_FlushFirst ==
    /\ snd_last.op = "write_data" =>
          /\ Len(snd_last.calls) >= 1
          /\ snd_last.calls[1].fn = "stream.update"
          /\ Len(snd_last.samples) = snd_last.calls[1].v
          /\ \A k \in 2..Len(snd_last.calls) : snd_last.calls[k].fn # "stream.update"
          /\ pending = 0
    /\ snd_last.op = "rom_bank_updated" =>
          /\ snd_last.calls = <<Call("stream.update", 0, Len(snd_last.samples))>>
          /\ pending = 0

\* C9 witness: a write to an FM register while a sample was due: the sample
\* is produced by the update that precedes the register write.
C9_Witness ==
    /\ snd_last.op = "write_data"
    /\ Len(snd_last.samples) = 1
    /\ Len(snd_last.calls) = 2
    /\ snd_last.calls[1] = Call("stream.update", 0, 1)
    /\ snd_last.calls[2].fn = "opl.write"

\* C12: IrqEnableMask is always the bitwise inverse of the last value written
\* to register 0x04, restricted to the Timer A, Timer B, ADPCM-EOS and
\* ADPCM-BRDY bits (all four enabled before any such write), and in every
\* reachable state the FM engine's own IRQ mask equals IrqEnableMask.
C12_IrqMask ==
    /\ \A b \in 0..7 : (BIT(m_irq_mask, b) = 1) <=> (b \in {3, 4, 5, 6})
    /\ [](opl_irq_mask = m_irq_mask)
    /\ [][IF snd_last'.op = "write_data" /\ m_address = 4
          THEN \A b \in 0..7 :
                  (BIT(m_irq_mask', b) = 1) <=>
                      (b \in {3, 4, 5, 6} /\ BIT(snd_last'.arg, b) = 0)
          ELSE m_irq_mask' = m_irq_mask
       ]_vars

\* C12 witness: 0xa5 has been written to register 0x04; timer A, EOS and BRDY
\* stay enabled, timer B is disabled, in the device and in the FM engine.
C12_Witness ==
    /\ snd_last.op = "write_data"
    /\ m_address = 4
    /\ snd_last.arg = 165
    /\ m_irq_mask = 88
    /\ opl_irq_mask = 88

\* the calls combine_status makes are the last three of an operation that
\* computes the combined status
CombinesStatus(l, address) ==
    \/ l.op \in {"read_status", "device_reset"}
    \/ (l.op = "write_data" /\ address = 4)

\* C13: every computation of the combined status (each ReadStatusPort, each
\* write to register 0x04, reset) reads the engines' status at that moment and
\* feeds the masked value back to the FM engine, setting exactly the bits of
\* the result and resetting all others, so that right afterwards the FM
\* engine's status equals the byte reported.
C13_StatusFeedback ==
    [][CombinesStatus(snd_last', m_address) =>
          LET calls == snd_last'.calls
              n == Len(calls)
              fb == calls[n]
          IN  /\ n >= 3
              /\ calls[n - 2].fn = "opn.status"
              /\ calls[n - 1].fn = "adpcm_b.status"
              /\ fb.fn = "opn.set_reset_status"
              /\ \A b \in 0..7 : BIT(fb.a, b) + BIT(fb.v, b) = 1
              /\ fb.a = BitAnd(combine_status_raw(calls[n - 2].v, calls[n - 1].v),
                               m_irq_mask')
              /\ opl_status' = fb.a
              /\ (snd_last'.op \in {"read_status", "device_reset"} =>
                     snd_last'.result = opl_status')
              /\ (snd_last'.op = "read_status" =>
                     /\ calls[n - 2].v = opl_status
                     /\ calls[n - 1].v = adpcm_status)
    ]_vars

\* C13 witness: a status read that found timer B raised in the FM engine but
\* disabled by the mask: the engine's flag is reset, and another flag is kept.
C13_Witness ==
    /\ snd_last.op = "read_status"
    /\ BIT(snd_last.calls[1].v, 5) = 1
    /\ BIT(snd_last.result, 5) = 0
    /\ snd_last.result # 0
    /\ opl_status = snd_last.result

\* the calls to the I/O-write handler among the calls of the last operation
IoWrites(calls) == SelectSeq(calls, LAMBDA c : c.fn = "io_write_handler")

\* C14: a write with AddressLatch 0x19 and data v forwards exactly
\* v & IoDirectionMask to the I/O-write handler; IoDirectionMask is the low four
\* bits of the last value written at address 0x18 (0 before any such write) and
\* never has a bit above bit 3.
C14_IoWriteMasked ==
    /\ m_io_ddr = 0
    /\ [](m_io_ddr \in 0..15)
    /\ [][/\ IF snd_last'.op = "write_data" /\ m_address = 24
             THEN \A b \in 0..7 :
                     BIT(m_io_ddr', b) = (IF b < 4 THEN BIT(snd_last'.arg, b) ELSE 0)
             ELSE m_io_ddr' = m_io_ddr
          /\ (snd_last'.op = "write_data" /\ m_address = 25 =>
                 LET w == WritesOf(snd_last'.calls) IN
                 /\ Len(w) = 1
                 /\ w[1].fn = "io_write_handler"
                 /\ \A b \in 0..7 :
                       (BIT(w[1].v, b) = 1) <=>
                           (BIT(snd_last'.arg, b) = 1 /\ BIT(m_io_ddr, b) = 1))
       ]_vars

\* C14 witness: 0xa5 written to the I/O data register under the direction mask
\* 0x05: only the two output bits are forwarded.
C14_Witness ==
    /\ snd_last.op = "write_data"
    /\ m_address = 25
    /\ snd_last.arg = 165
    /\ m_io_ddr = 5
    /\ IoWrites(snd_last.calls) = <<Call("io_write_handler", 0, 5)>>

\* C15 as stated: a write to address 0x19 while IoDirectionMask is 0 makes no
\* call to the I/O-write handler.
C15_NoIoWriteWhenMaskZero ==
    (snd_last.op = "write_data" /\ m_address = 25 /\ m_io_ddr = 0) =>
        IoWrites(snd_last.calls) = <<>>

\* C15: IoDirectionMask gates which bits of an I/O write are forwarded, not
\* whether the write is forwarded: a write to address 0x19 while IoDirectionMask
\* is 0 still makes exactly one call to the I/O-write handler, with the value 0.
C15_IoWriteZeroWhenMaskZero ==
    (snd_last.op = "write_data" /\ m_address = 25 /\ m_io_ddr = 0) =>
        IoWrites(snd_last.calls) = <<Call("io_write_handler", 0, 0)>>

\* C15 witness: 0xa5 written to the I/O data register while every line is an
\* input.
C15_Witness ==
    /\ snd_last.op = "write_data"
    /\ m_address = 25
    /\ m_io_ddr = 0
    /\ snd_last.arg = 165

\* the calls to the ADPCM-B engine's registers among the calls of an operation
AdpcmWrites(calls) == SelectSeq(calls, LAMBDA c : c.fn = "adpcm_b.write")

\* the addresses whose data-port write reaches the ADPCM-B engine
AdpcmRoutedAddresses ==
    {a \in AddrValues : AdpcmWrites(write_data_calls(a, 0, 0)) # <<>>}

LowestAdpcmAddress ==
    CHOOSE a \in AdpcmRoutedAddresses : \A o \in AdpcmRoutedAddresses : a <= o

HighestAdpcmAddress ==
    CHOOSE a \in AdpcmRoutedAddresses : \A o \in AdpcmRoutedAddresses : a >= o

\* C16 as stated: the ADPCM-routed write addresses form one contiguous range:
\* every write to an address between the lowest and the highest of them reaches
\* the ADPCM-B engine.
C16_AdpcmRangeContiguous ==
    (/\ snd_last.op = "write_data"
     /\ m_address \in LowestAdpcmAddress..HighestAdpcmAddress) =>
        AdpcmWrites(snd_last.calls) # <<>>

\* C16: the ADPCM-routed write addresses are 0x07..0x17 without 0x09, 0x13 and
\* 0x14: a write reaches the ADPCM-B engine iff its address is one of them, and
\* a write to 0x09, 0x13 or 0x14 reaches FM register a only.
C16_AdpcmRangeWithGaps ==
    snd_last.op = "write_data" =>
        /\ (AdpcmWrites(snd_last.calls) # <<>>) <=>
               (m_address \in (7..23) \ {9, 19, 20})
        /\ (m_address \in {9, 19, 20} =>
               WritesOf(snd_last.calls) = <<Call("opl.write", m_address, snd_last.arg)>>)

\* C16 witness: a write to address 0x09, inside the range, that went to the FM
\* engine.
C16_Witness ==
    /\ snd_last.op = "write_data"
    /\ m_address = 9
    /\ snd_last.arg = 165
    /\ AdpcmWrites(snd_last.calls) = <<>>

\* the emitted samples lie within the signed 16-bit range, and an accumulator
\* beyond it is emitted at the boundary on its side
SampleClamped(l) ==
    l.op = "sample" =>
        /\ l.result \in (-32768)..32767
        /\ (l.arg > 32767 => l.result = 32767)
        /\ (l.arg < -32768 => l.result = -32768)
        /\ (l.arg \in (-32768)..32767 => l.result = ymfm_roundtrip_fp(l.arg))

C21_AddressLatchFrame ==
    /\ m_address = 0
    /\ [][IF snd_last'.op = "write_address"
          THEN /\ m_address' = snd_last'.arg
               /\ snd_last'.calls = <<>>
               /\ snd_last'.samples = <<>>
               /\ UNCHANGED <<m_io_ddr, m_irq_mask, opl_status, opl_irq_mask,
                              adpcm_status, pending>>
          ELSE m_address' = m_address
       ]_vars

\* C21 witness: a reset after the latch was set to 0x19; the latch is kept.
C21_Witness ==
    /\ snd_last.op = "device_reset"
    /\ m_address = 25

\* C22: whenever the ADPCM-B engine reports PLAYING, the byte returned by
\* ReadStatusPort has the ADPCM-playing status bit set, whatever IrqEnableMask
\* the IRQ-control writes have left.
C22_PlayingVisible ==
    (/\ snd_last.op = "read_status"
     /\ BitAnd(snd_last.calls[2].v, CHAN_STATUS_PLAYING) # 0) =>
        BitAnd(snd_last.result, STATUS_ADPCM_B_PLAYING) # 0

====
